---------------------------- MODULE Spec2Model ----------------------------
(***************************************************************************)
(* A model of the explora-ai server scripts:                               *)
(*   - server/python/drawio_to_vsdx.py : convert_drawio_to_vsdx, its       *)
(*     helper get_master_id_from_style and the __main__ block;             *)
(*   - server/ppt_analyzer.py : main (the matching loop).                  *)
(* Strings whose contents matter (styles, display text, numeric            *)
(* attributes, part paths) are sequences of one-character strings or of    *)
(* path segments, so that substring tests, replacements, number parsing    *)
(* and path resolution are computed and not assumed.                       *)
(***************************************************************************)
EXTENDS Integers, Sequences, FiniteSets, TLC

(***************************************************************************)
(* Bounds of the model.                                                    *)
(***************************************************************************)
\* the longest cell list of an input diagram
MaxCells == 3
\* the longest display text handed to the escaping
MaxTextLen == 4
\* the largest number of fragments a style string is built from
MaxFrags == 3
\* the largest number of spreadsheet rows
MaxRows == 3

VARIABLES
    \* ---- drawio_to_vsdx.py ----
    xml_string,        \* the input document
    pc,                \* position in convert_drawio_to_vsdx / __main__
    idx,               \* position of the running for loop in mx_cells
    visio_id_counter,
    shape_map,
    shapes_xml,
    connects_xml,
    page_width_px,
    page_height_px,
    exc,               \* the exception that left the function uncaught
    stderr,            \* what was printed to sys.stderr
    result,            \* the value returned by convert_drawio_to_vsdx
    zf,                \* the writes to the archive, in order
    page1_xml,         \* the generated page part
    stdout,            \* what __main__ printed
    \* ---- the pure functions applied to one input ----
    value,             \* a display text
    text,              \* its escaped form
    style,             \* a style string
    master_id,         \* its master id
    fpc,               \* "in" before the function is applied, "out" after
    \* ---- ppt_analyzer.py ----
    repo,              \* the .pptx files of the knowledge repository
    sheet,             \* the rows of the uploaded spreadsheet
    model,             \* the embedding model: the similarity scores it gives
    apc,               \* position in main
    df,                \* the data frame: rows paired with their index label
    test_cases,
    ppt_filenames,
    cosine_scores,
    pos,               \* position of the iterrows loop in df
    results,
    first_match_for_ppt,
    rowsUsed,          \* per result, the score row that was read
    aexc,              \* the exception that left main uncaught
    aout               \* what main printed to stdout

convVars == <<xml_string, pc, idx, visio_id_counter, shape_map, shapes_xml,
              connects_xml, page_width_px, page_height_px, exc, stderr,
              result, zf, page1_xml, stdout>>
funVars == <<value, text, style, master_id, fpc>>
pptVars == <<repo, sheet, model, apc, df, test_cases, ppt_filenames,
             cosine_scores, pos, results, first_match_for_ppt, rowsUsed,
             aexc, aout>>
vars == <<convVars, funVars, pptVars>>

(***************************************************************************)
(* Python values.                                                          *)
(***************************************************************************)
\* an attribute that is not there: Element.get returns its default
Absent == <<"#absent">>
\* Element.get(name, default)
Get(attr, default) == IF attr = Absent THEN default ELSE attr

Digits == {"0", "1", "2", "3", "4", "5", "6", "7", "8", "9"}

DigitVal(c) ==
    CASE c = "0" -> 0 [] c = "1" -> 1 [] c = "2" -> 2 [] c = "3" -> 3
      [] c = "4" -> 4 [] c = "5" -> 5 [] c = "6" -> 6 [] c = "7" -> 7
      [] c = "8" -> 8 [] c = "9" -> 9

RECURSIVE NatOf(_)
NatOf(s) ==
    IF Len(s) = 0 THEN 0
    ELSE 10 * NatOf(SubSeq(s, 1, Len(s) - 1)) + DigitVal(s[Len(s)])

AllDigits(s) == Len(s) > 0 /\ \A i \in 1..Len(s) : s[i] \in Digits

\* float(s) for the strings of the model: an optionally signed run of digits
\* converts, anything else raises ValueError
FloatOk(s) ==
    \/ AllDigits(s)
    \/ Len(s) > 1 /\ s[1] = "-" /\ AllDigits(Tail(s))

Float(s) == IF s[1] = "-" THEN 0 - NatOf(Tail(s)) ELSE NatOf(s)


\* str.replace(old, new): every non-overlapping occurrence, left to right
RECURSIVE Replace(_, _, _)
Replace(s, old, new) ==
    IF Len(s) < Len(old) THEN s
    ELSE IF SubSeq(s, 1, Len(old)) = old
         THEN new \o Replace(SubSeq(s, Len(old) + 1, Len(s)), old, new)
         ELSE <<s[1]>> \o Replace(Tail(s), old, new)

\* `sub in s` for strings
Contains(s, sub) ==
    \E i \in 1..(Len(s) - Len(sub) + 1) : SubSeq(s, i, i + Len(sub) - 1) = sub

(***************************************************************************)
(* drawio_to_vsdx.py: the package templates.  A path is the sequence of    *)
(* its segments.                                                           *)
(***************************************************************************)
\* of a template, what the package's consistency rests on: the part names
\* its Override elements give, the targets of its Relationship elements and
\* the ids of its Master elements
CONTENT_TYPES_XML ==
    [Override |-> { <<"visio", "pages", "page1.xml">>,
                    <<"visio", "masters", "masters.xml">>,
                    <<"visio", "document.xml">> },
     Target |-> {}, Master |-> {}]

RELS_XML ==
    [Override |-> {}, Target |-> { <<"visio", "document.xml">> }, Master |-> {}]

DOCUMENT_RELS_XML ==
    [Override |-> {},
     Target |-> { <<"pages", "page1.xml">>, <<"masters", "masters.xml">> },
     Master |-> {}]

DOCUMENT_XML == [Override |-> {}, Target |-> {}, Master |-> {}]

MASTERS_XML ==
    [Override |-> {}, Target |-> {}, Master |-> {"1", "2", "3", "4"}]

ELLIPSE == <<"e", "l", "l", "i", "p", "s", "e">>
RHOMBUS == <<"r", "h", "o", "m", "b", "u", "s">>

\* the two tests in the other order
get_master_id_from_style_rhombusFirst(s) ==
    IF Len(s) = 0 THEN "1"
    ELSE IF Contains(s, RHOMBUS) THEN "3"
    ELSE IF Contains(s, ELLIPSE) THEN "2"
    ELSE "1"

get_master_id_from_style(s) ==
    IF Len(s) = 0 THEN "1"
    ELSE IF Contains(s, ELLIPSE) THEN "2"
    ELSE IF Contains(s, RHOMBUS) THEN "3"
    ELSE "1"

\* the replacements with "&" handled last
Escape_ampLast(v) ==
    Replace(Replace(Replace(v, <<"<">>, <<"&", "l", "t", ";">>),
                    <<">">>, <<"&", "g", "t", ";">>),
            <<"&">>, <<"&", "a", "m", "p", ";">>)

\* the chain of replacements applied to a cell's value
Escape(v) ==
    Replace(Replace(Replace(v, <<"&">>, <<"&", "a", "m", "p", ";">>),
                    <<"<">>, <<"&", "l", "t", ";">>),
            <<">">>, <<"&", "g", "t", ";">>)

\* page_width_in = 11.0 and page_height_in = 8.5 = 17 / 2
page_width_in == 11
page_height_in_x2 == 17

\* the four physical-unit values of a shape, each an exact fraction <<n, d>>
WidthIn(width_px, pw) == <<width_px * page_width_in, pw>>
HeightIn(height_px, ph) == <<height_px * page_height_in_x2, 2 * ph>>
PinXIn(x_px, width_px, pw) == <<(2 * x_px + width_px) * page_width_in, 2 * pw>>
PinYIn(y_px, height_px, ph) ==
    <<2 * page_height_in_x2 * ph - page_height_in_x2 * (2 * y_px + height_px),
      4 * ph>>

\* the element appended for a vertex
VertexShape(visio_id, master, cell, pw, ph) ==
    LET width_px  == Float(Get(cell.geo.width, <<"1", "2", "0">>))
        height_px == Float(Get(cell.geo.height, <<"6", "0">>))
        x_px      == Float(Get(cell.geo.x, <<"0">>))
        y_px      == Float(Get(cell.geo.y, <<"0">>))
    IN [ID |-> visio_id, Master |-> master,
        Cells |-> << <<"PinX", PinXIn(x_px, width_px, pw)>>,
                     <<"PinY", PinYIn(y_px, height_px, ph)>>,
                     <<"Width", WidthIn(width_px, pw)>>,
                     <<"Height", HeightIn(height_px, ph)>> >>,
        hasText |-> TRUE,
        Text |-> Escape(Get(cell.value, <<>>))]

\* the element appended for a resolved edge
ConnectorShape(visio_id) ==
    [ID |-> visio_id, Master |-> "4",
     Cells |-> << <<"BeginX", <<0, 1>> >>, <<"BeginY", <<0, 1>> >>,
                  <<"EndX", <<0, 1>> >>, <<"EndY", <<0, 1>> >> >>,
     hasText |-> FALSE,
     Text |-> <<>>]

Connect(from, fromCell, to) ==
    [FromSheet |-> from, FromCell |-> fromCell, ToSheet |-> to, ToCell |-> "PinX"]

\* the page part written beside the document part
Writes_pageMisplaced ==
    << [name |-> <<"[Content_Types].xml">>, data |-> "CONTENT_TYPES_XML"],
       [name |-> <<"_rels", ".rels">>, data |-> "RELS_XML"],
       [name |-> <<"visio", "document.xml">>, data |-> "DOCUMENT_XML"],
       [name |-> <<"visio", "_rels", "document.xml.rels">>,
        data |-> "DOCUMENT_RELS_XML"],
       [name |-> <<"visio", "masters", "masters.xml">>, data |-> "MASTERS_XML"],
       [name |-> <<"visio", "page1.xml">>, data |-> "page1_xml"] >>

\* the six writestr calls, in order: the part name and the text written
Writes ==
    << [name |-> <<"[Content_Types].xml">>, data |-> "CONTENT_TYPES_XML"],
       [name |-> <<"_rels", ".rels">>, data |-> "RELS_XML"],
       [name |-> <<"visio", "document.xml">>, data |-> "DOCUMENT_XML"],
       [name |-> <<"visio", "_rels", "document.xml.rels">>,
        data |-> "DOCUMENT_RELS_XML"],
       [name |-> <<"visio", "masters", "masters.xml">>, data |-> "MASTERS_XML"],
       [name |-> <<"visio", "pages", "page1.xml">>, data |-> "page1_xml"] >>

\* the text a write names; the page part declares nothing of the three
Template(data) ==
    CASE data = "CONTENT_TYPES_XML" -> CONTENT_TYPES_XML
      [] data = "RELS_XML" -> RELS_XML
      [] data = "DOCUMENT_XML" -> DOCUMENT_XML
      [] data = "DOCUMENT_RELS_XML" -> DOCUMENT_RELS_XML
      [] data = "MASTERS_XML" -> MASTERS_XML
      [] data = "page1_xml" -> [Override |-> {}, Target |-> {}, Master |-> {}]

\* dict assignment d[k] = v
Put(d, k, v) == [x \in DOMAIN d \cup {k} |-> IF x = k THEN v ELSE d[x]]

(***************************************************************************)
(* drawio_to_vsdx.py: the input documents.                                 *)
(***************************************************************************)
One == <<"1">>

NoGeo == [present |-> FALSE, width |-> Absent, height |-> Absent,
          x |-> Absent, y |-> Absent]
\* an mxGeometry child that leaves every attribute to its default
DefaultGeo == [present |-> TRUE, width |-> Absent, height |-> Absent,
               x |-> Absent, y |-> Absent]

VertexIds == {"a", "b"}
VertexStyles == {Absent, RHOMBUS \o <<";">>, <<"x", "=">> \o ELLIPSE}
VertexValues == { <<"<", "b", ">", "&">> }
\* the source and target of the edges: "z" is the id of no cell
EdgeEnds == { <<"a", "b">>, <<"a", "z">>, <<"z", "b">> }

\* a vertex without geometry is given no style: the style is read after the
\* geometry test only
VertexCells ==
    { [vertex |-> One, edge |-> Absent, id |-> i, style |-> s, value |-> v,
       geo |-> DefaultGeo, source |-> "", target |-> ""] :
        i \in VertexIds, s \in VertexStyles, v \in VertexValues }
    \cup
    { [vertex |-> One, edge |-> Absent, id |-> i, style |-> Absent, value |-> v,
       geo |-> NoGeo, source |-> "", target |-> ""] :
        i \in VertexIds, v \in VertexValues }

EdgeCells ==
    { [vertex |-> Absent, edge |-> One, id |-> "e", style |-> Absent,
       value |-> Absent, geo |-> DefaultGeo, source |-> e[1], target |-> e[2]] :
        e \in EdgeEnds }

\* a cell that is neither a vertex nor an edge (the layer cells "0" and "1")
OtherCells ==
    { [vertex |-> Absent, edge |-> Absent, id |-> "0", style |-> Absent,
       value |-> Absent, geo |-> NoGeo, source |-> "", target |-> ""] }

Cells == VertexCells \cup EdgeCells \cup OtherCells

\* the cell lists of n cells, in document order
CellLists(n) == [1..n -> Cells]

\* <<pageWidth, pageHeight>>: both absent, both numeric, and one of them zero
\* or not a number
PageAttrs ==
    { <<Absent, Absent>>,
      << <<"9", "6", "0">>, <<"5", "4", "0">> >>,
      << <<"0">>, <<"5", "4", "0">> >>,
      << <<"9", "6", "0">>, <<"0">> >>,
      << <<"a", "b", "c">>, <<"5", "4", "0">> >>,
      << <<"9", "6", "0">>, <<"a", "b", "c">> >> }

\* wellFormed: ET.fromstring accepts the text.  graphModel: where the
\* mxGraphModel element is: nowhere, the document element itself, or below it.
Document(wf, g, attrs, c) ==
    [wellFormed |-> wf, graphModel |-> g, pageWidth |-> attrs[1],
     pageHeight |-> attrs[2], cells |-> c]

\* a text that is no markup; a document without a graph model that can be
\* found; a document with one, its canvas declared as PageAttrs has it
IsDocument(doc) ==
    \/ doc = Document(FALSE, "absent", <<Absent, Absent>>, <<>>)
    \/ \E n \in 0..MaxCells : \E c \in CellLists(n) :
         \E g \in {"absent", "root"} :
           doc = Document(TRUE, g, <<Absent, Absent>>, c)
    \/ \E n \in 0..MaxCells : \E c \in CellLists(n) :
         \E a \in PageAttrs :
           doc = Document(TRUE, "descendant", a, c)

\* root.find(".//mxGraphModel"): the descendants of the root are searched,
\* the root itself is not
FindGraphModel(doc) == doc.graphModel = "descendant"

ConvInit ==
    /\ IsDocument(xml_string)
    /\ pc = "start"
    /\ idx = 1
    /\ visio_id_counter = 0
    /\ shape_map = <<>>
    /\ shapes_xml = <<>>
    /\ connects_xml = <<>>
    /\ page_width_px = 0
    /\ page_height_px = 0
    /\ exc = "none"
    /\ stderr = ""
    /\ result = "none"
    /\ zf = <<>>
    /\ page1_xml = [Shapes |-> <<>>, Connects |-> <<>>]
    /\ stdout = ""

\* the state of a script that is not running
ConvIdle ==
    /\ xml_string = Document(FALSE, "absent", <<Absent, Absent>>, <<>>)
    /\ pc = "idle"
    /\ idx = 1
    /\ visio_id_counter = 0
    /\ shape_map = <<>>
    /\ shapes_xml = <<>>
    /\ connects_xml = <<>>
    /\ page_width_px = 0
    /\ page_height_px = 0
    /\ exc = "none"
    /\ stderr = ""
    /\ result = "none"
    /\ zf = <<>>
    /\ page1_xml = [Shapes |-> <<>>, Connects |-> <<>>]
    /\ stdout = ""

mx_cells == xml_string.cells

\* an exception no except clause of the function catches
Raise(e) ==
    /\ exc' = e
    /\ pc' = "raised"

(***************************************************************************)
(* Lines 72-80: parse, locate the cells and the canvas size.               *)
(***************************************************************************)
Parse ==
    /\ pc = "start"
    /\ IF ~xml_string.wellFormed
       THEN \* except ET.ParseError
            /\ stderr' = "Error parsing XML"
            /\ result' = "None"
            /\ pc' = "returned"
            /\ UNCHANGED <<exc, visio_id_counter, page_width_px, page_height_px>>
       ELSE /\ visio_id_counter' = 1
            /\ UNCHANGED <<stderr, result>>
            /\ IF ~FindGraphModel(xml_string)
               THEN Raise("AttributeError")
                    /\ UNCHANGED <<page_width_px, page_height_px>>
               ELSE IF ~FloatOk(Get(xml_string.pageWidth, <<"1", "9", "2", "0">>))
               THEN Raise("ValueError")
                    /\ UNCHANGED <<page_width_px, page_height_px>>
               ELSE IF ~FloatOk(Get(xml_string.pageHeight, <<"1", "0", "8", "0">>))
               THEN Raise("ValueError")
                    /\ page_width_px' =
                         Float(Get(xml_string.pageWidth, <<"1", "9", "2", "0">>))
                    /\ UNCHANGED page_height_px
               ELSE /\ page_width_px' =
                         Float(Get(xml_string.pageWidth, <<"1", "9", "2", "0">>))
                    /\ page_height_px' =
                         Float(Get(xml_string.pageHeight, <<"1", "0", "8", "0">>))
                    /\ pc' = IF Len(mx_cells) = 0 THEN "assemble" ELSE "vertices"
                    /\ UNCHANGED exc
    /\ UNCHANGED <<xml_string, idx, shape_map, shapes_xml, connects_xml, zf,
                   page1_xml, stdout>>
    /\ UNCHANGED <<funVars, pptVars>>

\* the for loop moves to its next cell, or ends and control goes to `after`
Advance(after) ==
    /\ idx' = IF idx < Len(mx_cells) THEN idx + 1 ELSE 1
    /\ pc' = IF idx < Len(mx_cells) THEN pc ELSE after
    /\ UNCHANGED exc

GeoFloatsOk(geo) ==
    /\ FloatOk(Get(geo.width, <<"1", "2", "0">>))
    /\ FloatOk(Get(geo.height, <<"6", "0">>))
    /\ FloatOk(Get(geo.x, <<"0">>))
    /\ FloatOk(Get(geo.y, <<"0">>))

(***************************************************************************)
(* Lines 83-106: one iteration of the "Create shapes" loop.                *)
(***************************************************************************)
VertexStep ==
    /\ pc = "vertices"
    /\ LET cell == mx_cells[idx] IN
       IF cell.vertex = One
       THEN /\ shape_map' = Put(shape_map, cell.id, visio_id_counter)
            /\ visio_id_counter' = visio_id_counter + 1
            /\ IF ~cell.geo.present
               THEN Advance("edges") /\ UNCHANGED shapes_xml
               ELSE IF ~GeoFloatsOk(cell.geo)
               THEN Raise("ValueError") /\ UNCHANGED <<idx, shapes_xml>>
               ELSE IF page_width_px = 0 \/ page_height_px = 0
               THEN Raise("ZeroDivisionError") /\ UNCHANGED <<idx, shapes_xml>>
               ELSE /\ shapes_xml' =
                         Append(shapes_xml,
                                VertexShape(visio_id_counter,
                                    get_master_id_from_style(Get(cell.style, <<>>)),
                                    cell, page_width_px, page_height_px))
                    /\ Advance("edges")
       ELSE /\ Advance("edges")
            /\ UNCHANGED <<shape_map, visio_id_counter, shapes_xml>>
    /\ UNCHANGED <<xml_string, connects_xml, page_width_px, page_height_px,
                   stderr, result, zf, page1_xml, stdout>>
    /\ UNCHANGED <<funVars, pptVars>>

\* an edge is converted when both its ends are keys of shape_map
Resolved(cell, map) ==
    cell.source \in DOMAIN map /\ cell.target \in DOMAIN map

\* the two ends bound the wrong way round
EdgeConnects_swapped(visio_id, source_visio_id, target_visio_id) ==
    << Connect(visio_id, "BeginX", target_visio_id),
       Connect(visio_id, "EndX", source_visio_id) >>

\* the two Connect elements of an edge
EdgeConnects(visio_id, source_visio_id, target_visio_id) ==
    << Connect(visio_id, "BeginX", source_visio_id),
       Connect(visio_id, "EndX", target_visio_id) >>

(***************************************************************************)
(* Lines 109-122: one iteration of the "Create connectors" loop.           *)
(***************************************************************************)
EdgeStep ==
    /\ pc = "edges"
    /\ LET cell == mx_cells[idx] IN
       IF cell.edge = One /\ Resolved(cell, shape_map)
       THEN /\ visio_id_counter' = visio_id_counter + 1
            /\ shapes_xml' = Append(shapes_xml, ConnectorShape(visio_id_counter))
            /\ connects_xml' =
                 connects_xml \o EdgeConnects(visio_id_counter,
                                              shape_map[cell.source],
                                              shape_map[cell.target])
       ELSE UNCHANGED <<visio_id_counter, shapes_xml, connects_xml>>
    /\ Advance("assemble")
    /\ UNCHANGED <<xml_string, shape_map, page_width_px, page_height_px,
                   stderr, result, zf, page1_xml, stdout>>
    /\ UNCHANGED <<funVars, pptVars>>

(***************************************************************************)
(* Lines 128-143: the page part and the archive.                           *)
(***************************************************************************)
Assemble ==
    /\ pc = "assemble"
    /\ page1_xml' = [Shapes |-> shapes_xml, Connects |-> connects_xml]
    /\ zf' = Writes
    /\ result' = "bytes"
    /\ pc' = "returned"
    /\ UNCHANGED <<xml_string, idx, visio_id_counter, shape_map, shapes_xml,
                   connects_xml, page_width_px, page_height_px, exc, stderr,
                   stdout>>
    /\ UNCHANGED <<funVars, pptVars>>

(***************************************************************************)
(* Lines 145-150: __main__ prints the package when there is one.           *)
(***************************************************************************)
Main ==
    /\ pc = "returned"
    /\ stdout' = IF result = "bytes" THEN "base64" ELSE ""
    /\ pc' = "exit"
    /\ UNCHANGED <<xml_string, idx, visio_id_counter, shape_map, shapes_xml,
                   connects_xml, page_width_px, page_height_px, exc, stderr,
                   result, zf, page1_xml>>
    /\ UNCHANGED <<funVars, pptVars>>


(***************************************************************************)
(* The two pure functions of drawio_to_vsdx.py, each applied to one input  *)
(* drawn from a set wider than the documents above carry.                  *)
(***************************************************************************)
TextAlphabet == {"&", "<", ">", "l", "t", ";", "x"}
Texts == UNION { [1..n -> TextAlphabet] : n \in 0..MaxTextLen }

StyleFragments ==
    { ELLIPSE, RHOMBUS,
      <<"e", "l", "l", "i", "p", "s">>, <<"e">>,
      <<"r">>, <<"h", "o", "m", "b", "u", "s">>,
      <<";">> }

RECURSIVE Flatten(_)
Flatten(ss) == IF Len(ss) = 0 THEN <<>> ELSE ss[1] \o Flatten(Tail(ss))

Styles ==
    UNION { { Flatten(f) : f \in [1..n -> StyleFragments] } : n \in 0..MaxFrags }

FunIdle ==
    /\ value = <<>>
    /\ text = <<>>
    /\ style = <<>>
    /\ master_id = ""
    /\ fpc = "idle"

EscapeInit ==
    /\ value \in Texts
    /\ text = <<>>
    /\ style = <<>>
    /\ master_id = ""
    /\ fpc = "in"

\* line 104
EscapeText ==
    /\ fpc = "in"
    /\ text' = Escape(value)
    /\ fpc' = "out"
    /\ UNCHANGED <<value, style, master_id>>
    /\ UNCHANGED <<convVars, pptVars>>

StyleInit ==
    /\ value = <<>>
    /\ text = <<>>
    /\ style \in Styles
    /\ master_id = ""
    /\ fpc = "in"

\* line 93
Classify ==
    /\ fpc = "in"
    /\ master_id' = get_master_id_from_style(style)
    /\ fpc' = "out"
    /\ UNCHANGED <<value, text, style>>
    /\ UNCHANGED <<convVars, pptVars>>

(***************************************************************************)
(* ppt_analyzer.py.  A score is a number of hundredths.                    *)
(***************************************************************************)
HighThreshold == 70
MediumThreshold == 50
LowThreshold == 30
DUPLICATE_DESCRIPTION_THRESHOLD == 85

get_confidence_level(score) ==
    IF score >= HighThreshold THEN "High"
    ELSE IF score >= MediumThreshold THEN "Medium"
    ELSE IF score >= LowThreshold THEN "Low"
    ELSE "No confident match"

\* an empty cell of the spreadsheet
NaN == "NaN"
Descriptions == {"login", "report"}
PptNames == <<"deck1.pptx", "deck2.pptx">>
ScoreValues == {20, 60, 80}
DescScoreValues == {40, 90}

\* what the sentence-transformer gives: the similarity of a description and
\* a deck, and the similarity of two different descriptions
Models ==
    [score : [Descriptions \X {PptNames[1], PptNames[2]} -> ScoreValues],
     descDiff : DescScoreValues]

\* row n of the sheet has Test Case ID n
Rows(descs) == [n \in 1..Len(descs) |-> [id |-> n, desc |-> descs[n]]]

Sheets ==
    { [columnsOk |-> FALSE, rows |-> <<>>] }
    \cup
    { [columnsOk |-> TRUE, rows |-> Rows(d)] :
        d \in UNION { [1..n -> Descriptions \cup {NaN}] : n \in 0..MaxRows } }

NoModel == [score |-> [x \in Descriptions \X {PptNames[1], PptNames[2]} |-> 20],
            descDiff |-> 40]

PptInit ==
    /\ \/ repo = <<>> /\ sheet = [columnsOk |-> FALSE, rows |-> <<>>]
          /\ model = NoModel
       \/ repo = PptNames /\ sheet \in Sheets /\ model \in Models
    /\ apc = "start"
    /\ df = <<>>
    /\ test_cases = <<>>
    /\ ppt_filenames = <<>>
    /\ cosine_scores = <<>>
    /\ pos = 1
    /\ results = <<>>
    /\ first_match_for_ppt = <<>>
    /\ rowsUsed = <<>>
    /\ aexc = "none"
    /\ aout = "none"

PptIdle ==
    /\ repo = <<>>
    /\ sheet = [columnsOk |-> FALSE, rows |-> <<>>]
    /\ model = NoModel
    /\ apc = "idle"
    /\ df = <<>>
    /\ test_cases = <<>>
    /\ ppt_filenames = <<>>
    /\ cosine_scores = <<>>
    /\ pos = 1
    /\ results = <<>>
    /\ first_match_for_ppt = <<>>
    /\ rowsUsed = <<>>
    /\ aexc = "none"
    /\ aout = "none"

\* print an error object and sys.exit(1)
ExitError(msg) ==
    /\ aout' = msg
    /\ apc' = "exit1"

\* lines 70-81
ReadRepo ==
    /\ apc = "start"
    /\ IF Len(repo) = 0
       THEN ExitError("No readable PowerPoint files found in the repository.")
       ELSE apc' = "excel" /\ UNCHANGED aout
    /\ UNCHANGED <<repo, sheet, model, df, test_cases, ppt_filenames,
                   cosine_scores, pos, results, first_match_for_ppt, rowsUsed,
                   aexc>>
    /\ UNCHANGED <<convVars, funVars>>

\* read_excel gives the rows the labels 0, 1, ... of a RangeIndex
Labelled(rows) == [n \in 1..Len(rows) |-> [label |-> n - 1, row |-> rows[n]]]

RECURSIVE SelectRows(_)
\* dropna(subset=['Test Case Description']): the rows kept keep their labels
SelectRows(lr) ==
    IF Len(lr) = 0 THEN <<>>
    ELSE IF lr[1].row.desc = NaN THEN SelectRows(Tail(lr))
    ELSE <<lr[1]>> \o SelectRows(Tail(lr))

dropna(lr) == SelectRows(lr)

\* lines 84-104
ReadExcel ==
    /\ apc = "excel"
    /\ IF ~sheet.columnsOk
       THEN /\ ExitError("Excel file is missing required columns")
            /\ UNCHANGED <<df, test_cases>>
       ELSE /\ df' = dropna(Labelled(sheet.rows))
            /\ IF Len(df') = 0
               THEN /\ ExitError("No valid test case descriptions found in the Excel file.")
                    /\ UNCHANGED test_cases
               ELSE /\ test_cases' = [k \in 1..Len(df') |-> df'[k].row.desc]
                    /\ apc' = "encode"
                    /\ UNCHANGED aout
    /\ UNCHANGED <<repo, sheet, model, ppt_filenames, cosine_scores, pos,
                   results, first_match_for_ppt, rowsUsed, aexc>>
    /\ UNCHANGED <<convVars, funVars>>

\* lines 108-115: row k of the matrix is the k-th entry of test_cases
Encode ==
    /\ apc = "encode"
    /\ ppt_filenames' = repo
    /\ cosine_scores' =
         [k \in 1..Len(test_cases) |->
            [j \in 1..Len(repo) |-> model.score[<<test_cases[k], repo[j]>>]]]
    /\ pos' = 1
    /\ apc' = "loop"
    /\ UNCHANGED <<repo, sheet, model, df, test_cases, results,
                   first_match_for_ppt, rowsUsed, aexc, aout>>
    /\ UNCHANGED <<convVars, funVars>>

\* torch.argmax: the first index of the largest value
ArgMax(row) ==
    CHOOSE j \in 1..Len(row) :
        /\ \A m \in 1..Len(row) : row[m] <= row[j]
        /\ \A m \in 1..(j - 1) : row[m] < row[j]

\* the similarity of two descriptions (lines 147-148)
DescSimilarity(d1, d2) == IF d1 = d2 THEN 100 ELSE model.descDiff

\* the tensor index iterrows' label is used as (line 125): i is 0-based
ScoreRowIndex(i, k) == i

\* lines 121-164: one iteration of the iterrows loop
MatchStep ==
    /\ apc = "loop"
    /\ LET i == df[pos].label
           row == df[pos].row
           r == ScoreRowIndex(i, pos - 1)
       IN
       IF r >= Len(cosine_scores)
       THEN /\ aexc' = "IndexError"
            /\ apc' = "raised"
            /\ UNCHANGED <<pos, results, first_match_for_ppt, rowsUsed>>
       ELSE LET scores_for_case == cosine_scores[r + 1]
                top_result_index == ArgMax(scores_for_case)
                best_ppt_filename == ppt_filenames[top_result_index]
                similarity_score == scores_for_case[top_result_index]
                confidence == get_confidence_level(similarity_score)
                seen == best_ppt_filename \in DOMAIN first_match_for_ppt
                note ==
                    IF confidence = "No confident match"
                    THEN "The top match score was too low for a confident recommendation."
                    ELSE IF seen /\ DescSimilarity(row.desc,
                                      first_match_for_ppt[best_ppt_filename].description)
                                    > DUPLICATE_DESCRIPTION_THRESHOLD
                    THEN "Semantically similar. Same PPT recommended."
                    ELSE ""
            IN
            /\ first_match_for_ppt' =
                 IF confidence # "No confident match" /\ ~seen
                 THEN Put(first_match_for_ppt, best_ppt_filename,
                          [id |-> row.id, description |-> row.desc])
                 ELSE first_match_for_ppt
            /\ results' =
                 Append(results,
                        [TestCaseID |-> row.id,
                         TestCaseDescription |-> row.desc,
                         MatchedPPT |-> IF confidence = "No confident match"
                                        THEN "No relevant deck found"
                                        ELSE best_ppt_filename,
                         SimilarityScore |-> similarity_score,
                         ConfidenceLevel |-> confidence,
                         Note |-> note])
            /\ rowsUsed' = Append(rowsUsed, r)
            /\ pos' = pos + 1
            /\ apc' = IF pos < Len(df) THEN "loop" ELSE "print"
            /\ UNCHANGED aexc
    /\ UNCHANGED <<repo, sheet, model, df, test_cases, ppt_filenames,
                   cosine_scores, aout>>
    /\ UNCHANGED <<convVars, funVars>>

\* line 167
PrintResults ==
    /\ apc = "print"
    /\ aout' = "results"
    /\ apc' = "exit0"
    /\ UNCHANGED <<repo, sheet, model, df, test_cases, ppt_filenames,
                   cosine_scores, pos, results, first_match_for_ppt, rowsUsed,
                   aexc>>
    /\ UNCHANGED <<convVars, funVars>>


(***************************************************************************)
(* The specifications: one script, or one function, runs at a time.        *)
(***************************************************************************)
Init == ConvInit /\ FunIdle /\ PptIdle
Next == Parse \/ VertexStep \/ EdgeStep \/ Assemble \/ Main
Spec == Init /\ [][Next]_vars

InitEscape == ConvIdle /\ EscapeInit /\ PptIdle
NextEscape == EscapeText
SpecEscape == InitEscape /\ [][NextEscape]_vars

InitStyle == ConvIdle /\ StyleInit /\ PptIdle
NextStyle == Classify
SpecStyle == InitStyle /\ [][NextStyle]_vars

InitPpt == ConvIdle /\ FunIdle /\ PptInit
NextPpt == ReadRepo \/ ReadExcel \/ Encode \/ MatchStep \/ PrintResults
SpecPpt == InitPpt /\ [][NextPpt]_vars

(***************************************************************************)
(* The claims about convert_drawio_to_vsdx (specification Spec).           *)
(***************************************************************************)
CellIndexes == 1..Len(mx_cells)
IsVertex(k) == mx_cells[k].vertex = One
HasGeo(k) == mx_cells[k].geo.present
\* the vertex pass is over
EdgePassStarts == pc = "edges" /\ idx = 1

\* C1: a vertex with no geometry child is skipped entirely: when the edge
\* pass starts, the Shapes emitted are those of the vertices with geometry,
\* the id counter has advanced once per emitted Shape only, and the id of a
\* geometry-less vertex (one that no geometry-bearing vertex shares) is not
\* a key of shape_map.
C1_GeometrylessVertexSkipped ==
    EdgePassStarts =>
        /\ Len(shapes_xml) = Cardinality({ k \in CellIndexes : IsVertex(k) /\ HasGeo(k) })
        /\ visio_id_counter = 1 + Len(shapes_xml)
        /\ \A k \in CellIndexes :
             (/\ IsVertex(k)
              /\ ~HasGeo(k)
              /\ \A j \in CellIndexes :
                   IsVertex(j) /\ HasGeo(j) => mx_cells[j].id # mx_cells[k].id)
             => mx_cells[k].id \notin DOMAIN shape_map

\* C2: the ids of the emitted Shapes are 1, 2, ..., N in emission order, the
\* vertex Shapes before the connector Shapes, and the counter is the next id
\* (so the first connector id is the last vertex id plus one).
C2_ShapeIdsDense ==
    pc \in {"vertices", "edges", "assemble", "returned", "exit"} /\ result # "None" =>
        /\ \A n \in 1..Len(shapes_xml) : shapes_xml[n].ID = n
        /\ visio_id_counter = Len(shapes_xml) + 1
        /\ \A m, n \in 1..Len(shapes_xml) :
             m < n /\ shapes_xml[m].Master = "4" => shapes_xml[n].Master = "4"

\* C3: every Connect record references shapes of the page: FromSheet is the
\* id of an emitted connector Shape and ToSheet the id of an emitted vertex
\* Shape.
C3_ConnectsReferenceShapes ==
    \A n \in 1..Len(connects_xml) :
        /\ \E m \in 1..Len(shapes_xml) :
             /\ shapes_xml[m].ID = connects_xml[n].FromSheet
             /\ shapes_xml[m].Master = "4"
        /\ \E m \in 1..Len(shapes_xml) :
             /\ shapes_xml[m].ID = connects_xml[n].ToSheet
             /\ shapes_xml[m].Master # "4"

\* the edges among the first `done` cells whose two ends are keys of the map
RECURSIVE ResolvedEdges(_, _)
ResolvedEdges(done, map) ==
    IF done = 0 THEN <<>>
    ELSE LET c == mx_cells[done] IN
         IF c.edge = One /\ c.source \in DOMAIN map /\ c.target \in DOMAIN map
         THEN Append(ResolvedEdges(done - 1, map), c)
         ELSE ResolvedEdges(done - 1, map)

RECURSIVE Connectors(_)
Connectors(shapes) ==
    IF Len(shapes) = 0 THEN <<>>
    ELSE IF shapes[1].Master = "4" THEN <<shapes[1]>> \o Connectors(Tail(shapes))
    ELSE Connectors(Tail(shapes))

\* the cells the edge pass has handled
EdgesDone ==
    IF pc = "edges" THEN idx - 1
    ELSE IF pc \in {"assemble", "returned", "exit"} /\ result # "None"
    THEN Len(mx_cells)
    ELSE 0

ZeroPoint ==
    << <<"BeginX", <<0, 1>> >>, <<"BeginY", <<0, 1>> >>,
       <<"EndX", <<0, 1>> >>, <<"EndY", <<0, 1>> >> >>

\* the output of the edge pass so far is that of the resolved edges handled
\* so far, in document order: per edge one connector Shape at 0,0, the
\* connector ids consecutive and ending at the counter, and two Connects,
\* begin to the source's id and then end to the target's id
C4_EdgeOutput ==
    pc \in {"edges", "assemble", "returned", "exit"} /\ result # "None" =>
        LET E == ResolvedEdges(EdgesDone, shape_map)
            K == Connectors(shapes_xml)
        IN /\ Len(K) = Len(E)
           /\ Len(connects_xml) = 2 * Len(E)
           /\ \A n \in 1..Len(E) :
                /\ K[n].Cells = ZeroPoint
                /\ K[n].ID = visio_id_counter - Len(E) + n - 1
                /\ connects_xml[2 * n - 1] =
                     [FromSheet |-> K[n].ID, FromCell |-> "BeginX",
                      ToSheet |-> shape_map[E[n].source], ToCell |-> "PinX"]
                /\ connects_xml[2 * n] =
                     [FromSheet |-> K[n].ID, FromCell |-> "EndX",
                      ToSheet |-> shape_map[E[n].target], ToCell |-> "PinX"]

\* one step of the edge pass: a resolved edge takes the next id for its
\* Shape; any other cell emits nothing and consumes no id
C4_EdgeStep ==
    pc = "edges" =>
        LET c == mx_cells[idx] IN
        IF c.edge = One /\ c.source \in DOMAIN shape_map
                        /\ c.target \in DOMAIN shape_map
        THEN /\ Len(shapes_xml') = Len(shapes_xml) + 1
             /\ shapes_xml'[Len(shapes_xml')].ID = visio_id_counter
             /\ visio_id_counter' = visio_id_counter + 1
        ELSE /\ shapes_xml' = shapes_xml
             /\ connects_xml' = connects_xml
             /\ visio_id_counter' = visio_id_counter

C5_ParseErrorOutcome ==
    /\ result = "bytes" =>
         xml_string.wellFormed /\ xml_string.graphModel # "absent"
    /\ (pc # "start" /\ (~xml_string.wellFormed \/ ~FindGraphModel(xml_string))) =>
         /\ exc = "none"
         /\ result = "None"
         /\ stderr # ""
         /\ stdout = ""

\* C6: the canvas size the transformation uses is positive: an absent or
\* non-numeric pageWidth / pageHeight is replaced by 1920 / 1080, a zero one
\* is rejected before any division, and no arithmetic or conversion fault
\* escapes.
C6_CanvasPositive ==
    /\ exc \notin {"ValueError", "ZeroDivisionError"}
    /\ (pc \in {"vertices", "edges", "assemble"} \/ result = "bytes") =>
         /\ page_width_px > 0
         /\ page_height_px > 0
         /\ ~FloatOk(Get(xml_string.pageWidth, <<"1", "9", "2", "0">>)) =>
              page_width_px = 1920
         /\ ~FloatOk(Get(xml_string.pageHeight, <<"1", "0", "8", "0">>)) =>
              page_height_px = 1080

\* the six part names of a package
SixParts ==
    { <<"[Content_Types].xml">>,
      <<"_rels", ".rels">>,
      <<"visio", "document.xml">>,
      <<"visio", "_rels", "document.xml.rels">>,
      <<"visio", "masters", "masters.xml">>,
      <<"visio", "pages", "page1.xml">> }

Written == { zf[n].name : n \in 1..Len(zf) }

\* a relationship target is relative to the directory that holds the _rels
\* directory of the relationships part
ResolveTarget(relsName, target) ==
    SubSeq(relsName, 1, Len(relsName) - 2) \o target

\* C7: a successful conversion writes exactly the six parts; every
\* Relationship Target and every Override PartName names a written part; the
\* Master of every Shape is declared in the written masters catalogue, which
\* declares 1, 2, 3, 4; the page of the empty diagram is empty.
C7_PackageConsistent ==
    result = "bytes" =>
        /\ Len(zf) = 6
        /\ Written = SixParts
        /\ \A n \in 1..Len(zf) :
             /\ \A t \in Template(zf[n].data).Target :
                  ResolveTarget(zf[n].name, t) \in Written
             /\ \A o \in Template(zf[n].data).Override : o \in Written
        /\ \E n \in 1..Len(zf) :
             /\ zf[n].name = <<"visio", "masters", "masters.xml">>
             /\ Template(zf[n].data).Master = {"1", "2", "3", "4"}
             /\ \A m \in 1..Len(page1_xml.Shapes) :
                  page1_xml.Shapes[m].Master \in Template(zf[n].data).Master
        /\ \E n \in 1..Len(zf) :
             /\ zf[n].name = <<"visio", "pages", "page1.xml">>
             /\ zf[n].data = "page1_xml"
        /\ Len(mx_cells) = 0 =>
             page1_xml = [Shapes |-> <<>>, Connects |-> <<>>]

\* the empty diagram was converted
C7_Witness ==
    /\ result = "bytes"
    /\ Len(mx_cells) = 0
    /\ Len(zf) = 6
    /\ Len(page1_xml.Shapes) = 0

(***************************************************************************)
(* The claims about the escaping (SpecEscape) and the style rules          *)
(* (SpecStyle).                                                            *)
(***************************************************************************)
StartsWith(s, p) == Len(s) >= Len(p) /\ SubSeq(s, 1, Len(p)) = p
Drop(s, n) == SubSeq(s, n + 1, Len(s))

AmpEntity == <<"&", "a", "m", "p", ";">>
LtEntity == <<"&", "l", "t", ";">>
GtEntity == <<"&", "g", "t", ";">>

\* what an XML reader makes of character data: one pass, each entity read once
RECURSIVE Unescape(_)
Unescape(s) ==
    IF Len(s) = 0 THEN <<>>
    ELSE IF StartsWith(s, AmpEntity) THEN <<"&">> \o Unescape(Drop(s, 5))
    ELSE IF StartsWith(s, LtEntity) THEN <<"<">> \o Unescape(Drop(s, 4))
    ELSE IF StartsWith(s, GtEntity) THEN <<">">> \o Unescape(Drop(s, 4))
    ELSE <<s[1]>> \o Unescape(Tail(s))

\* C8: the text written inside the Text element holds no raw "<" or ">",
\* every "&" in it starts one of &amp; &lt; &gt;, and reading it back gives
\* the original display text.
C8_EscapeWellFormed ==
    fpc = "out" =>
        /\ \A i \in 1..Len(text) : text[i] \notin {"<", ">"}
        /\ \A i \in 1..Len(text) :
             text[i] = "&" =>
                 \/ StartsWith(Drop(text, i - 1), AmpEntity)
                 \/ StartsWith(Drop(text, i - 1), LtEntity)
                 \/ StartsWith(Drop(text, i - 1), GtEntity)
        /\ Unescape(text) = value

\* a text that already spells an entity was escaped: its "&" is escaped and
\* the "<" beside it is escaped once
C8_Witness ==
    /\ fpc = "out"
    /\ value = <<"<", "&", "l", "t">>
    /\ text = <<"&", "l", "t", ";", "&", "a", "m", "p", ";", "l", "t">>

\* sub occurs in s at offset i
OccursAt(s, sub, i) ==
    /\ i + Len(sub) <= Len(s)
    /\ \A j \in 1..Len(sub) : s[i + j] = sub[j]

Occurs(s, sub) == \E i \in 0..Len(s) : OccursAt(s, sub, i)

\* the ordered rules and the masters they name (1 Rectangle, 2 Ellipse,
\* 3 Rhombus)
RuleTable ==
    << [substring |-> <<"e", "l", "l", "i", "p", "s", "e">>, master |-> "2"],
       [substring |-> <<"r", "h", "o", "m", "b", "u", "s">>, master |-> "3"] >>

Matching(s) == { n \in 1..Len(RuleTable) : Occurs(s, RuleTable[n].substring) }

RuleResult(s) ==
    IF Matching(s) = {} THEN "1"
    ELSE RuleTable[CHOOSE n \in Matching(s) : \A m \in Matching(s) : n <= m].master

\* C9: the master of a style is that of the first rule of the table whose
\* substring occurs in it, Rectangle when none does (the empty style
\* included); it is never the connector master.
C9_StyleRules ==
    fpc = "out" =>
        /\ master_id = RuleResult(style)
        /\ master_id \in {"1", "2", "3"}

\* a style holding both substrings, "rhombus" first, was classified Ellipse
C9_Witness ==
    /\ fpc = "out"
    /\ style = <<"r", "h", "o", "m", "b", "u", "s", ";",
                 "e", "l", "l", "i", "p", "s", "e">>
    /\ master_id = "2"

(***************************************************************************)
(* The claim about ppt_analyzer.main (SpecPpt).                            *)
(***************************************************************************)
\* the best score the model gives a description over the decks
BestScore(desc) ==
    CHOOSE v \in ScoreValues :
        /\ \E j \in 1..Len(repo) : model.score[<<desc, repo[j]>>] = v
        /\ \A j \in 1..Len(repo) : model.score[<<desc, repo[j]>>] <= v

\* C10: each result is computed from the score row of its own description:
\* the k-th surviving test case reads row k of the matrix (index k - 1), the
\* index is within the matrix, and there is one result per surviving test
\* case, in spreadsheet order.
C10_OwnScoreRow ==
    /\ aexc # "IndexError"
    /\ \A k \in 1..Len(results) :
         /\ rowsUsed[k] = k - 1
         /\ results[k].TestCaseID = df[k].row.id
         /\ results[k].TestCaseDescription = test_cases[k]
         /\ results[k].SimilarityScore = BestScore(test_cases[k])
    /\ apc \in {"print", "exit0"} => Len(results) = Len(test_cases)
============================================================================
